---- MODULE Spec2Model ----
(***************************************************************************)
(* A model of the APSheet DataFrame (DataFrame.js): a Frame with fixed     *)
(* bounds, a sparse store keyed by "x,y" strings, and one change callback. *)
(* Frame.js and Point.js are not part of the sources at hand; the few      *)
(* operations of theirs that DataFrame calls (contains, area, the          *)
(* row-major enumerations, isCoordinate, isPoint) follow spec.md sections  *)
(* 3, 4.1 and 4.2.                                                         *)
(***************************************************************************)
EXTENDS Integers, Sequences, FiniteSets, TLC

(***************************************************************************)
(* JavaScript values.  DataFrame never looks inside a stored value; it     *)
(* only compares with undefined (=== in putAt, == in                       *)
(* hasCompleteDataForFrame), so a value is one of a few tagged atoms:      *)
(* undefined, null, and 0 for the values that are falsy yet neither (the   *)
(* number 0, the empty string).                                            *)
(***************************************************************************)
JSUndefined == "undefined"
JSNull == "null"
JSZero == "0"
StoredValues == {JSNull, JSZero}
Values == StoredValues \cup {JSUndefined}

\* this.callback is null (constructor) or a function the owner assigned.
CallbackNull == "null"
CallbackFn == "function"

(***************************************************************************)
(* Bounds of the model.                                                    *)
(***************************************************************************)
\* The DataFrame under study is new DataFrame(FrameOrigin, FrameCorner):
\* a 2 x 2 frame (GridSheet builds [0,0]..[1000,1000]).
FrameOrigin == <<0, 0>>
FrameCorner == <<1, 1>>
\* Largest data array handed to loadFromArray: MaxRows rows of MaxCols columns.
MaxRows == 2
MaxCols == 2

\* Coordinates inside the frame, and the coordinates callers address outside
\* of it: the cell one column past the corner and one row before the origin.
InsideCoords == {<<x, y>> : x \in FrameOrigin[1]..FrameCorner[1], y \in FrameOrigin[2]..FrameCorner[2]}
OutsideCoords == {<<FrameCorner[1] + 1, FrameOrigin[2] - 1>>}
AllCoords == InsideCoords \cup OutsideCoords

\* A location argument: a Point (location.isPoint), a coordinate pair [x, y]
\* (isCoordinate), or something that is neither.
PointLoc(x, y) == [kind |-> "point", x |-> x, y |-> y]
CoordLoc(x, y) == [kind |-> "coord", x |-> x, y |-> y]
InvalidLoc == [kind |-> "other", x |-> 0, y |-> 0]
Locations == {PointLoc(c[1], c[2]) : c \in AllCoords} \cup {CoordLoc(c[1], c[2]) : c \in AllCoords} \cup {InvalidLoc}

\* Point.js: the isPoint property and isCoordinate().
IsPoint(location) == location.kind = "point"
IsCoordinate(location) == location.kind = "coord"

\* A Frame value (new Frame(origin, corner)); origin and corner are <<x, y>>.
Frame(o, c) == [kind |-> "frame", origin |-> o, corner |-> c]

(***************************************************************************)
(* Frame.js, from spec.md section 3: containment and area.                 *)
(***************************************************************************)
ContainsXY(o, c, x, y) == /\ o[1] <= x
                          /\ x <= c[1]
                          /\ o[2] <= y
                          /\ y <= c[2]

\* contains(target): a Point or a coordinate pair by its coordinates, a Frame
\* when its origin and its corner are both contained; never throws.
Contains(o, c, target) == IF target.kind = "frame"
                          THEN /\ ContainsXY(o, c, target.origin[1], target.origin[2])
                               /\ ContainsXY(o, c, target.corner[1], target.corner[2])
                          ELSE IF target.kind \in {"point", "coord"}
                          THEN ContainsXY(o, c, target.x, target.y)
                          ELSE FALSE

Area(o, c) == (c[1] - o[1] + 1) * (c[2] - o[2] + 1)

(***************************************************************************)
(* Store keys.  A key is a JavaScript string, here the sequence of its     *)
(* characters.                                                             *)
(***************************************************************************)
DigitChar(d) == <<"0", "1", "2", "3", "4", "5", "6", "7", "8", "9">>[d + 1]

RECURSIVE NatToString(_)
NatToString(n) == IF n < 10 THEN <<DigitChar(n)>> ELSE NatToString(n \div 10) \o <<DigitChar(n % 10)>>

\* String(n) of an integer n.
NumberToString(n) == IF n < 0 THEN <<"-">> \o NatToString(0 - n) ELSE NatToString(n)

\* `${x},${y}`
PointKey(x, y) == NumberToString(x) \o <<",">> \o NumberToString(y)

\* Array.prototype.toString: the elements' strings joined with ",".
RECURSIVE ArrayToString(_)
ArrayToString(arr) == IF Len(arr) = 0 THEN <<>>
                      ELSE IF Len(arr) = 1 THEN NumberToString(arr[1])
                      ELSE NumberToString(arr[1]) \o <<",">> \o ArrayToString(Tail(arr))

VARIABLES origin, corner, store, callback, last, calls, written

\* The sheet around the DataFrame: what the sheet did during the step just
\* taken (effects), the edit area's disabled attribute and 'change' listener,
\* the sheet's 'editing-cell' class and the cells that carry the class
\* 'editing', the MouseHandler's isSelecting, the Selector's cursor and
\* anchor, and whether a mousedown on a cell has gone without a mouseup
\* (pressed).
VARIABLES effects, editDisabled, changeListener, editingSheet, editingCells, isSelecting, cursor, anchor, pressed

dataVars == <<origin, corner, store, callback, last, calls, written>>
sheetVars == <<editDisabled, changeListener, editingSheet, editingCells, isSelecting, cursor, anchor, pressed>>
vars == <<origin, corner, store, callback, last, calls, written, effects, editDisabled, changeListener, editingSheet, editingCells, isSelecting, cursor, anchor, pressed>>

\* this.store[key]: the own property, or undefined.
StoreGet(s, key) == IF key \in DOMAIN s THEN s[key] ELSE JSUndefined

EmptyStore == [k \in {} |-> JSUndefined]

(***************************************************************************)
(* putAt(location, value, notify = true)                                   *)
(***************************************************************************)
\* Lines 46-56: does putAt reach its throw?
PutAtThrows(location) == ~IsPoint(location) /\ ~IsCoordinate(location)

\* putAt whose Point branch builds `${y},${x}`.
PutAtKeySwapped(location) == IF IsPoint(location) THEN PointKey(location.y, location.x)
                             ELSE ArrayToString(<<location.x, location.y>>)

\* Lines 46-53: the key putAt derives.
PutAtKey(location) == IF IsPoint(location) THEN PointKey(location.x, location.y)
                      ELSE ArrayToString(<<location.x, location.y>>)

\* putAt with the test "if(!value)" in place of "value === undefined".
PutAtStoreFalsy(s, location, value) == LET key == PutAtKey(location)
                                       IN IF value \in {JSUndefined, JSNull, JSZero}
                                          THEN [k \in DOMAIN s \ {key} |-> s[k]]
                                          ELSE [k \in DOMAIN s \cup {key} |-> IF k = key THEN value ELSE s[k]]

\* putAt that stores undefined like any other value.
PutAtStoreKeepsUndefined(s, location, value) == LET key == PutAtKey(location)
                                                IN [k \in DOMAIN s \cup {key} |-> IF k = key THEN value ELSE s[k]]

\* Lines 58-64: the store after the mutation.
PutAtStore(s, location, value) == LET key == PutAtKey(location)
                                  IN IF value = JSUndefined
                                     THEN [k \in DOMAIN s \ {key} |-> s[k]]
                                     ELSE [k \in DOMAIN s \cup {key} |-> IF k = key THEN value ELSE s[k]]

\* putAt that notifies before it mutates the store.
PutAtCallsBeforeMutation(s, cb, location, value, notify) == IF notify /\ cb # CallbackNull
                                                            THEN <<[arg |-> location, seen |-> s]>>
                                                            ELSE <<>>

\* Lines 65-67: the callback invocations putAt makes, each with its argument
\* and the store the callback finds when it runs.
PutAtCalls(s, cb, location, value, notify) == IF notify /\ cb # CallbackNull
                                              THEN <<[arg |-> location, seen |-> PutAtStore(s, location, value)]>>
                                              ELSE <<>>

(***************************************************************************)
(* getAt(location)                                                         *)
(***************************************************************************)
Returned(v) == [threw |-> FALSE, error |-> "none", value |-> v]
Thrown(e) == [threw |-> TRUE, error |-> e, value |-> JSUndefined]

\* getAt without the bounds check of its Point branch.
GetAtUncheckedPoint(s, o, c, location) == IF IsCoordinate(location)
                                          THEN IF ~Contains(o, c, location)
                                               THEN Thrown("outside")
                                               ELSE Returned(StoreGet(s, ArrayToString(<<location.x, location.y>>)))
                                          ELSE IF IsPoint(location)
                                          THEN Returned(StoreGet(s, PointKey(location.x, location.y)))
                                          ELSE Thrown("invalid")

\* Lines 83-99: the outcome of getAt on store s of the frame o..c.
GetAt(s, o, c, location) == IF IsCoordinate(location)
                            THEN IF ~Contains(o, c, location)
                                 THEN Thrown("outside")
                                 ELSE Returned(StoreGet(s, ArrayToString(<<location.x, location.y>>)))
                            ELSE IF IsPoint(location)
                            THEN IF ~Contains(o, c, location)
                                 THEN Thrown("outside")
                                 ELSE Returned(StoreGet(s, PointKey(location.x, location.y)))
                            ELSE Thrown("invalid")

(***************************************************************************)
(* loadFromArray(data, origin = [0,0]); data is a sequence of rows, origin *)
(* a coordinate pair.                                                      *)
(***************************************************************************)
\* Lines 119-126: the Frame the data would occupy when anchored at origin.
ComparisonFrame(data, org) == Frame(<<org.x, org.y>>, <<(Len(data[1]) - 1) + org.x, (Len(data) - 1) + org.y>>)

\* loadFromArray that validates its origin only.
LoadThrowsOriginOnly(o, c, data, org) == ~Contains(o, c, org)

\* Lines 116-118 and 127-129: does loadFromArray throw before writing?
LoadThrows(o, c, data, org) == IF ~Contains(o, c, org) THEN TRUE
                               ELSE ~Contains(o, c, ComparisonFrame(data, org))

\* loadFromArray whose column index starts at 1.
CellsOfRowOneBased(row, y) == [i \in 1..Len(row) |-> [x |-> i, y |-> y, value |-> row[i]]]

\* The order of data.forEach((row, y) => row.forEach((value, x) => ...)).
CellsOfRow(row, y) == [i \in 1..Len(row) |-> [x |-> i - 1, y |-> y, value |-> row[i]]]

RECURSIVE CellsFrom(_, _)
CellsFrom(data, r) == IF r > Len(data) THEN <<>> ELSE CellsOfRow(data[r], r - 1) \o CellsFrom(data, r + 1)

\* loadFromArray that adds the row index to x and the column index to y.
LoadPutTransposed(acc, cb, cell, fo) == LET adjustedCoord == CoordLoc(cell.y + fo[1], cell.x + fo[2])
                                        IN [store |-> PutAtStore(acc.store, adjustedCoord, cell.value),
                                            calls |-> acc.calls \o PutAtCalls(acc.store, cb, adjustedCoord, cell.value, FALSE)]

\* loadFromArray that leaves putAt's notify at its default, true.
LoadPutNotifying(acc, cb, cell, fo) == LET adjustedCoord == CoordLoc(cell.x + fo[1], cell.y + fo[2])
                                       IN [store |-> PutAtStore(acc.store, adjustedCoord, cell.value),
                                           calls |-> acc.calls \o PutAtCalls(acc.store, cb, adjustedCoord, cell.value, TRUE)]

\* Lines 132-140: one cell of the batch, written with putAt(adjustedCoord, value, false).
LoadPut(acc, cb, cell, fo) == LET adjustedCoord == CoordLoc(cell.x + fo[1], cell.y + fo[2])
                              IN [store |-> PutAtStore(acc.store, adjustedCoord, cell.value),
                                  calls |-> acc.calls \o PutAtCalls(acc.store, cb, adjustedCoord, cell.value, FALSE)]

RECURSIVE LoadWrite(_, _, _, _)
LoadWrite(acc, cb, cells, fo) == IF cells = <<>> THEN acc
                                 ELSE LoadWrite(LoadPut(acc, cb, Head(cells), fo), cb, Tail(cells), fo)

\* Lines 143-145: the notification that ends a load.
LoadNotify(acc, cb, frame) == IF cb # CallbackNull
                              THEN [store |-> acc.store, calls |-> acc.calls \o <<[arg |-> frame, seen |-> acc.store]>>]
                              ELSE acc

\* Lines 130-145: the store and the callback invocations of a load that passed
\* both checks.
LoadResult(s, cb, data, org) == LET frame == ComparisonFrame(data, org)
                                IN LoadNotify(LoadWrite([store |-> s, calls |-> <<>>], cb, CellsFrom(data, 1), frame.origin), cb, frame)

(***************************************************************************)
(* getDataArrayForFrame(aFrame)                                            *)
(***************************************************************************)
\* Frame.forEachCoordinateRow (spec.md 4.2): one row per y ascending, each the
\* coordinate pairs of that row with x ascending.
CoordinateRows(f) == [r \in 1..(f.corner[2] - f.origin[2] + 1) |-> [k \in 1..(f.corner[1] - f.origin[1] + 1) |-> CoordLoc(f.origin[1] + k - 1, f.origin[2] + r - 1)]]

\* getDataArrayForFrame that groups by column: result[c][r] in place of
\* result[r][c].
GetDataArrayForFrameTransposed(s, o, c, aFrame) == IF ~Contains(o, c, aFrame) THEN Thrown("not contained")
                                                   ELSE LET rows == CoordinateRows(aFrame)
                                                        IN Returned([k \in DOMAIN rows[1] |-> [r \in DOMAIN rows |-> GetAt(s, o, c, rows[r][k]).value]])

\* Lines 157-169.
GetDataArrayForFrame(s, o, c, aFrame) == IF ~Contains(o, c, aFrame) THEN Thrown("not contained")
                                         ELSE LET rows == CoordinateRows(aFrame)
                                                  got == [r \in DOMAIN rows |-> [k \in DOMAIN rows[r] |-> GetAt(s, o, c, rows[r][k])]]
                                              IN IF \E r \in DOMAIN got : \E k \in DOMAIN got[r] : got[r][k].threw
                                                 THEN Thrown("outside")
                                                 ELSE Returned([r \in DOMAIN rows |-> [k \in DOMAIN rows[r] |-> got[r][k].value]])

(***************************************************************************)
(* clear() and isFull                                                      *)
(***************************************************************************)
\* Line 194.
ClearStore == EmptyStore

\* clear that reports new Frame(this.corner, this.corner).
ClearCallsCornerOnly(cb, o, c) == IF cb # CallbackNull THEN <<[arg |-> Frame(c, c), seen |-> ClearStore]>> ELSE <<>>

\* Lines 195-199.
ClearCalls(cb, o, c) == IF cb # CallbackNull THEN <<[arg |-> Frame(o, c), seen |-> ClearStore]>> ELSE <<>>

\* Lines 211-213: Object.keys(this.store).length against area.
IsFull(s, o, c) == Area(o, c) = Cardinality(DOMAIN s)

(***************************************************************************)
(* minFrame, minFrameFromOrigin, toArray                                   *)
(***************************************************************************)
\* String.prototype.split(","): the pieces between the separators.
RECURSIVE Split(_, _)
Split(str, sep) == IF \A i \in 1..Len(str) : str[i] # sep THEN <<str>>
                   ELSE LET i == CHOOSE i \in 1..Len(str) : str[i] = sep /\ \A j \in 1..(i - 1) : str[j] # sep
                        IN <<SubSeq(str, 1, i - 1)>> \o Split(SubSeq(str, i + 1, Len(str)), sep)

DigitChars == {DigitChar(d) : d \in 0..9}
DigitOf(ch) == CHOOSE d \in 0..9 : DigitChar(d) = ch
JSNaN == "NaN"

\* The value of the leading decimal digits of str, after acc.
RECURSIVE DigitsValue(_, _)
DigitsValue(str, acc) == IF str = <<>> THEN acc
                         ELSE IF Head(str) \notin DigitChars THEN acc
                         ELSE DigitsValue(Tail(str), acc * 10 + DigitOf(Head(str)))

\* parseInt(numStr): an optional sign, then the leading digits; NaN without one.
ParseInt(numStr) == LET neg == numStr # <<>> /\ Head(numStr) = "-"
                        digits == IF neg THEN Tail(numStr) ELSE numStr
                    IN IF digits = <<>> THEN JSNaN
                       ELSE IF Head(digits) \notin DigitChars THEN JSNaN
                       ELSE IF neg THEN 0 - DigitsValue(digits, 0) ELSE DigitsValue(digits, 0)

\* Lines 221-225: keyString.split(",").map(numStr => parseInt(numStr)).
KeyCoord(keyString) == LET parts == Split(keyString, ",") IN [i \in 1..Len(parts) |-> ParseInt(parts[i])]

\* Math.min and Math.max of a non-empty list of numbers.
MathMin(xs) == CHOOSE m \in xs : \A n \in xs : m <= n
MathMax(xs) == CHOOSE m \in xs : \A n \in xs : n <= m

\* new Frame(origin, corner) where the corner is computed: spec.md 4.2 has
\* the construction fail when corner is not >= origin on both axes.
NewFrame(o, c) == IF o[1] <= c[1] /\ o[2] <= c[2] THEN Returned(Frame(o, c)) ELSE Thrown("invalid bounds")

\* Math.min() is Infinity and Math.max() is -Infinity: with no key minFrame
\* builds new Frame([Infinity, Infinity], [-Infinity, -Infinity]), whose
\* corner is below its origin.
NewFrameOfNoKeys == Thrown("invalid bounds")

\* minFrame that takes the y values from coord[0].
MinFrameXOnly(s) == LET keyCoords == {KeyCoord(k) : k \in DOMAIN s}
                        xValues == {coord[1] : coord \in keyCoords}
                        yValues == {coord[1] : coord \in keyCoords}
                    IN IF keyCoords = {} THEN NewFrameOfNoKeys
                       ELSE NewFrame(<<MathMin(xValues), MathMin(yValues)>>, <<MathMax(xValues), MathMax(yValues)>>)

\* Lines 220-237.
MinFrame(s) == LET keyCoords == {KeyCoord(k) : k \in DOMAIN s}
                   xValues == {coord[1] : coord \in keyCoords}
                   yValues == {coord[2] : coord \in keyCoords}
               IN IF keyCoords = {} THEN NewFrameOfNoKeys
                  ELSE NewFrame(<<MathMin(xValues), MathMin(yValues)>>, <<MathMax(xValues), MathMax(yValues)>>)

\* Lines 245-251.
MinFrameFromOrigin(s, o) == LET minFrame == MinFrame(s)
                            IN IF minFrame.threw THEN minFrame
                               ELSE NewFrame(<<o[1], o[2]>>, <<minFrame.value.corner[1], minFrame.value.corner[2]>>)

\* Lines 177-187.
ToArray(s, o, c, strict) == LET frame == IF strict THEN MinFrame(s) ELSE MinFrameFromOrigin(s, o)
                            IN IF frame.threw THEN frame ELSE GetDataArrayForFrame(s, o, c, frame.value)

(***************************************************************************)
(* hasCompleteDataForFrame(aFrame)                                         *)
(***************************************************************************)
\* Frame.points (spec.md 4.2): the Points of the frame, rows ascending in y,
\* within a row x ascending.
FramePoints(f) == LET w == f.corner[1] - f.origin[1] + 1
                      h == f.corner[2] - f.origin[2] + 1
                  IN [i \in 1..(w * h) |-> PointLoc(f.origin[1] + ((i - 1) % w), f.origin[2] + ((i - 1) \div w))]

\* v == undefined, the loose comparison: true of undefined and of null.
LooseEqualsUndefined(v) == v \in {JSUndefined, JSNull}

\* Lines 270-277: the loop from index i on.
RECURSIVE ScanPoints(_, _, _, _, _)
ScanPoints(s, o, c, points, i) == IF i > Len(points) THEN Returned(TRUE)
                                  ELSE LET got == GetAt(s, o, c, points[i])
                                       IN IF got.threw THEN got
                                          ELSE IF LooseEqualsUndefined(got.value) THEN Returned(FALSE)
                                          ELSE ScanPoints(s, o, c, points, i + 1)

\* Lines 265-278.
HasCompleteDataForFrame(s, o, c, aFrame) == IF ~Contains(o, c, aFrame) THEN Thrown("not contained")
                                            ELSE ScanPoints(s, o, c, FramePoints(aFrame), 1)

(***************************************************************************)
(* Inputs                                                                  *)
(***************************************************************************)
\* Rectangular arrays of a shape (loadFromArray takes the columns from the
\* first row and assumes the rows equal), of cells that hold a value or
\* undefined.
DataValues == {JSUndefined, JSZero}
DataArrays(rows, cols) == [1..rows -> [1..cols -> DataValues]]
BlankArray(rows, cols) == [r \in 1..rows |-> [k \in 1..cols |-> JSUndefined]]
LoadOrigins == {CoordLoc(c[1], c[2]) : c \in AllCoords}

\* loadFromArray reads data.length and data[0].length before it validates, and
\* the values only after: the arrays of a shape that fails validation are
\* all alike to it, and one stands for them.
LoadInputs(rows, cols, org) == IF LoadThrows(FrameOrigin, FrameCorner, BlankArray(rows, cols), org)
                               THEN {BlankArray(rows, cols)}
                               ELSE DataArrays(rows, cols)

\* GridSheet.onDataChanged(frame): what the sheet does with one notification,
\* in order. A Point is wrapped into new Frame(frame, frame); anything else,
\* a coordinate pair included (an Array has no isPoint), goes in as it came.
OnDataChanged(frame) == <<[effect |-> "dispatchEvent", type |-> "data-updated", frames |-> <<IF IsPoint(frame) THEN Frame(<<frame.x, frame.y>>, <<frame.x, frame.y>>) ELSE frame>>],
                          [effect |-> "updateCellContents"]>>

\* The callback the sheet registers is onDataChanged: the effects of the
\* invocations cs of it, in order.
RECURSIVE Delivered(_)
Delivered(cs) == IF cs = <<>> THEN <<>> ELSE OnDataChanged(Head(cs).arg) \o Delivered(Tail(cs))

\* Frames handed to getDataArrayForFrame and hasCompleteDataForFrame: the
\* well-formed frames between the addressed coordinates and two more cells
\* next to the bounds.
QueryCoords == AllCoords \cup {<<FrameCorner[1] + 1, FrameCorner[2]>>, <<FrameOrigin[1], FrameOrigin[2] - 1>>}
QueryFrames == {Frame(p[1], p[2]) : p \in {q \in QueryCoords \X QueryCoords : q[1][1] <= q[2][1] /\ q[1][2] <= q[2][2]}}

Init == /\ origin = FrameOrigin
        /\ corner = FrameCorner
        /\ store = EmptyStore
        /\ callback = CallbackNull
        /\ last = [op |-> "new"]
        /\ calls = <<>>
        /\ written = [c \in AllCoords |-> JSUndefined]
        /\ effects = <<>>
        /\ editDisabled = TRUE
        /\ changeListener = FALSE
        /\ editingSheet = FALSE
        /\ editingCells = {}
        /\ isSelecting = FALSE
        /\ cursor = FrameOrigin
        /\ anchor = FrameOrigin
        /\ pressed = FALSE

PutAt(location, value, notify) == /\ last' = [op |-> "putAt", location |-> location, value |-> value, notify |-> notify, threw |-> PutAtThrows(location)]
                                  /\ IF PutAtThrows(location)
                                     THEN /\ calls' = <<>>
                                          /\ UNCHANGED <<store, written>>
                                     ELSE /\ store' = PutAtStore(store, location, value)
                                          /\ calls' = PutAtCalls(store, callback, location, value, notify)
                                          /\ written' = [written EXCEPT ![<<location.x, location.y>>] = value]
                                  /\ UNCHANGED <<origin, corner, callback>>
                                  /\ effects' = Delivered(calls')
                                  /\ UNCHANGED sheetVars

GetAtCall(location) == /\ last' = [op |-> "getAt", location |-> location, result |-> GetAt(store, origin, corner, location)]
                       /\ calls' = <<>>
                       /\ UNCHANGED <<origin, corner, store, callback, written>>
                       /\ effects' = Delivered(calls')
                       /\ UNCHANGED sheetVars

LoadFromArray(data, org) == /\ last' = [op |-> "loadFromArray", data |-> data, origin |-> org, threw |-> LoadThrows(origin, corner, data, org)]
                            /\ IF LoadThrows(origin, corner, data, org)
                               THEN /\ calls' = <<>>
                                    /\ UNCHANGED <<store, written>>
                               ELSE /\ LET loaded == LoadResult(store, callback, data, org)
                                       IN /\ store' = loaded.store
                                          /\ calls' = loaded.calls
                                    /\ written' = [w \in AllCoords |-> IF /\ w[2] - org.y + 1 \in DOMAIN data
                                                                           /\ w[1] - org.x + 1 \in DOMAIN data[w[2] - org.y + 1]
                                                                        THEN data[w[2] - org.y + 1][w[1] - org.x + 1]
                                                                        ELSE written[w]]
                            /\ UNCHANGED <<origin, corner, callback>>
                            /\ effects' = Delivered(calls')
                            /\ UNCHANGED sheetVars

Clear == /\ last' = [op |-> "clear", removed |-> Cardinality(DOMAIN store)]
         /\ store' = ClearStore
         /\ calls' = ClearCalls(callback, origin, corner)
         /\ written' = [w \in AllCoords |-> JSUndefined]
         /\ UNCHANGED <<origin, corner, callback>>
         /\ effects' = Delivered(calls')
         /\ UNCHANGED sheetVars

\* The owner assigns dataFrame.callback (GridSheet's constructor).
SetCallback(cb) == /\ callback # cb
                   /\ callback' = cb
                   /\ last' = [op |-> "setCallback"]
                   /\ calls' = <<>>
                   /\ UNCHANGED <<origin, corner, store, written>>
                   /\ effects' = Delivered(calls')
                   /\ UNCHANGED sheetVars

Next == \/ \E location \in Locations, value \in Values, notify \in BOOLEAN : PutAt(location, value, notify)
        \/ \E location \in Locations : GetAtCall(location)
        \/ \E rows \in 1..MaxRows, cols \in 1..MaxCols, org \in LoadOrigins : \E data \in LoadInputs(rows, cols, org) : LoadFromArray(data, org)
        \/ Clear
        \/ \E cb \in {CallbackNull, CallbackFn} : SetCallback(cb)

Spec == Init /\ [][Next]_vars

(***************************************************************************)
(* The query operations as steps. None of them assigns a field or calls    *)
(* the callback: a step records the call and its outcome in last.          *)
(***************************************************************************)
QueryOps == {"getAt", "getDataArrayForFrame", "toArray", "isFull", "minFrame", "minFrameFromOrigin", "hasCompleteDataForFrame"}

\* getDataArrayForFrame that stores null in each cell it finds without an
\* entry.
GetDataArrayForFrameCallFilling(aFrame) == /\ last' = [op |-> "getDataArrayForFrame", frame |-> aFrame, result |-> GetDataArrayForFrame(store, origin, corner, aFrame)]
                                           /\ calls' = <<>>
                                           /\ store' = [k \in DOMAIN store \cup {PointKey(x, y) : x \in aFrame.origin[1]..aFrame.corner[1], y \in aFrame.origin[2]..aFrame.corner[2]} |-> IF k \in DOMAIN store THEN store[k] ELSE JSNull]
                                           /\ UNCHANGED <<origin, corner, callback, written>>
                                           /\ effects' = Delivered(calls')
                                           /\ UNCHANGED sheetVars

\* Lines 157-169.
GetDataArrayForFrameCall(aFrame) == /\ last' = [op |-> "getDataArrayForFrame", frame |-> aFrame, result |-> GetDataArrayForFrame(store, origin, corner, aFrame)]
                                    /\ calls' = <<>>
                                    /\ UNCHANGED <<origin, corner, store, callback, written>>
                                    /\ effects' = Delivered(calls')
                                    /\ UNCHANGED sheetVars

\* Lines 177-187.
ToArrayCall(strict) == /\ last' = [op |-> "toArray", strict |-> strict, result |-> ToArray(store, origin, corner, strict)]
                       /\ calls' = <<>>
                       /\ UNCHANGED <<origin, corner, store, callback, written>>
                       /\ effects' = Delivered(calls')
                       /\ UNCHANGED sheetVars

\* Lines 211-213.
IsFullCall == /\ last' = [op |-> "isFull", result |-> Returned(IsFull(store, origin, corner))]
              /\ calls' = <<>>
              /\ UNCHANGED <<origin, corner, store, callback, written>>
              /\ effects' = Delivered(calls')
              /\ UNCHANGED sheetVars

\* Lines 220-237.
MinFrameCall == /\ last' = [op |-> "minFrame", result |-> MinFrame(store)]
                /\ calls' = <<>>
                /\ UNCHANGED <<origin, corner, store, callback, written>>
                /\ effects' = Delivered(calls')
                /\ UNCHANGED sheetVars

\* Lines 245-251.
MinFrameFromOriginCall == /\ last' = [op |-> "minFrameFromOrigin", result |-> MinFrameFromOrigin(store, origin)]
                          /\ calls' = <<>>
                          /\ UNCHANGED <<origin, corner, store, callback, written>>
                          /\ effects' = Delivered(calls')
                          /\ UNCHANGED sheetVars

\* Lines 265-278.
HasCompleteDataForFrameCall(aFrame) == /\ last' = [op |-> "hasCompleteDataForFrame", frame |-> aFrame, result |-> HasCompleteDataForFrame(store, origin, corner, aFrame)]
                                       /\ calls' = <<>>
                                       /\ UNCHANGED <<origin, corner, store, callback, written>>
                                       /\ effects' = Delivered(calls')
                                       /\ UNCHANGED sheetVars

\* The DataFrame with its queries. putAt alone reaches every store over the
\* addressed cells, so the loads are left to Spec.
QueryNext == \/ \E location \in Locations, value \in Values, notify \in BOOLEAN : PutAt(location, value, notify)
             \/ Clear
             \/ \E cb \in {CallbackNull, CallbackFn} : SetCallback(cb)
             \/ \E location \in Locations : GetAtCall(location)
             \/ \E aFrame \in QueryFrames : GetDataArrayForFrameCall(aFrame)
             \/ \E strict \in BOOLEAN : ToArrayCall(strict)
             \/ IsFullCall
             \/ MinFrameCall
             \/ MinFrameFromOriginCall
             \/ \E aFrame \in QueryFrames : HasCompleteDataForFrameCall(aFrame)

QuerySpec == Init /\ [][QueryNext]_vars

(***************************************************************************)
(* The sheet: GridSheet's edit area and its MouseHandler, over a DataFrame *)
(* whose callback is onDataChanged.                                        *)
(***************************************************************************)
\* Event targets: the cell elements of the grid (target.isCell), one per
\* coordinate of the frame, and an element that is no cell.
CellTarget(x, y) == [isCell |-> TRUE, x |-> x, y |-> y]
NoCellTarget == [isCell |-> FALSE, x |-> 0, y |-> 0]
CellTargets == {CellTarget(w[1], w[2]) : w \in InsideCoords}
Targets == CellTargets \cup {NoCellTarget}

\* What the user can leave in the edit area: editArea.value is a string, the
\* empty one included.
EditValues == {"", "text"}

\* The text GridSheet's constructor loads into every cell (`${x}, ${y}`),
\* opaque to the DataFrame.
InitialText == "x, y"
InitialData == [r \in 1..(FrameCorner[2] - FrameOrigin[2] + 1) |-> [k \in 1..(FrameCorner[1] - FrameOrigin[1] + 1) |-> InitialText]]

\* Selector.relativeCursor: the cursor as a Point of the data (the primary
\* frame sits at [0,0]).
RelativeCursor(cur) == PointLoc(cur[1], cur[2])

\* GridSheet's constructor, lines 119-129, and MouseHandler's, lines 20-21.
SheetInit == /\ origin = FrameOrigin
             /\ corner = FrameCorner
             /\ store = LoadResult(EmptyStore, CallbackNull, InitialData, CoordLoc(FrameOrigin[1], FrameOrigin[2])).store
             /\ callback = CallbackFn
             /\ last = [op |-> "new"]
             /\ calls = <<>>
             /\ written = [c \in AllCoords |-> IF c \in InsideCoords THEN InitialText ELSE JSUndefined]
             /\ effects = <<>>
             /\ editDisabled = TRUE
             /\ changeListener = FALSE
             /\ editingSheet = FALSE
             /\ editingCells = {}
             /\ isSelecting = FALSE
             /\ cursor = FrameOrigin
             /\ anchor = FrameOrigin
             /\ pressed = FALSE

\* onMouseDown that starts a selection wherever the button goes down.
OnMouseDownSelectingAnyTarget(sel, target) == TRUE

\* MouseHandler.js lines 54-55: isSelecting after a mousedown on target.
OnMouseDownSelecting(sel, target) == IF target.isCell THEN TRUE ELSE sel

\* MouseHandler.js lines 53-60.
OnMouseDown(target) == /\ last' = [op |-> "onMouseDown", target |-> target]
                       /\ isSelecting' = OnMouseDownSelecting(isSelecting, target)
                       /\ pressed' = (target.isCell \/ pressed)
                       /\ IF target.isCell
                          THEN /\ cursor' = <<target.x, target.y>>
                               /\ anchor' = <<target.x, target.y>>
                               /\ effects' = <<[effect |-> "setCursorToElement", target |-> target],
                                               [effect |-> "setAnchorToElement", target |-> target],
                                               [effect |-> "dispatchEvent", type |-> "selection-changed"]>>
                          ELSE /\ effects' = <<>>
                               /\ UNCHANGED <<cursor, anchor>>
                       /\ calls' = <<>>
                       /\ UNCHANGED <<origin, corner, store, callback, written, editDisabled, changeListener, editingSheet, editingCells>>

\* MouseHandler.js lines 62-64.
OnMouseUp == /\ last' = [op |-> "onMouseUp"]
             /\ isSelecting' = FALSE
             /\ pressed' = FALSE
             /\ effects' = <<>>
             /\ calls' = <<>>
             /\ UNCHANGED <<origin, corner, store, callback, written, editDisabled, changeListener, editingSheet, editingCells, cursor, anchor>>

\* MouseHandler.js line 67: does a mouseover on target extend the selection?
OnCellEnterSelects(sel, target) == target.isCell /\ sel

\* MouseHandler.js lines 66-74.
OnCellEnter(target) == /\ last' = [op |-> "onCellEnter", target |-> target]
                       /\ IF OnCellEnterSelects(isSelecting, target)
                          THEN /\ cursor' = <<target.x, target.y>>
                               /\ effects' = <<[effect |-> "setCursorToElement", target |-> target],
                                               [effect |-> "selectFromAnchorTo", to |-> RelativeCursor(<<target.x, target.y>>)],
                                               [effect |-> "dispatchEvent", type |-> "selection-changed"]>>
                          ELSE /\ effects' = <<>>
                               /\ UNCHANGED cursor
                       /\ calls' = <<>>
                       /\ UNCHANGED <<origin, corner, store, callback, written, editDisabled, changeListener, editingSheet, editingCells, isSelecting, anchor, pressed>>

\* GridSheet.js lines 239-256.
OnCellEdit == /\ last' = [op |-> "onCellEdit", wasDisabled |-> editDisabled]
              /\ IF editDisabled
                 THEN /\ editingSheet' = TRUE
                      /\ editingCells' = editingCells \cup {cursor}
                      /\ editDisabled' = FALSE
                      /\ changeListener' = TRUE
                 ELSE UNCHANGED <<editDisabled, changeListener, editingSheet, editingCells>>
              /\ effects' = <<>>
              /\ calls' = <<>>
              /\ UNCHANGED <<origin, corner, store, callback, written, isSelecting, cursor, anchor, pressed>>

\* afterEditChange whose removeEventListener removes nothing: the listener
\* stays attached.
AfterEditChangeKeepsListener(value) == /\ changeListener
                                       /\ last' = [op |-> "afterEditChange", location |-> RelativeCursor(cursor), value |-> value]
                                       /\ editDisabled' = TRUE
                                       /\ editingSheet' = FALSE
                                       /\ editingCells' = editingCells \ {cursor}
                                       /\ store' = PutAtStore(store, RelativeCursor(cursor), value)
                                       /\ calls' = PutAtCalls(store, callback, RelativeCursor(cursor), value, TRUE)
                                       /\ written' = [written EXCEPT ![cursor] = value]
                                       /\ effects' = Delivered(calls') \o <<[effect |-> "updateCellContents"]>>
                                       /\ UNCHANGED <<origin, corner, callback, changeListener, isSelecting, cursor, anchor, pressed>>

\* GridSheet.js lines 258-272, run by the 'change' event of the edit area
\* while the listener is attached; value is editArea.value.
AfterEditChange(value) == /\ changeListener
                          /\ last' = [op |-> "afterEditChange", location |-> RelativeCursor(cursor), value |-> value]
                          /\ changeListener' = FALSE
                          /\ editDisabled' = TRUE
                          /\ editingSheet' = FALSE
                          /\ editingCells' = editingCells \ {cursor}
                          /\ store' = PutAtStore(store, RelativeCursor(cursor), value)
                          /\ calls' = PutAtCalls(store, callback, RelativeCursor(cursor), value, TRUE)
                          /\ written' = [written EXCEPT ![cursor] = value]
                          /\ effects' = Delivered(calls') \o <<[effect |-> "updateCellContents"]>>
                          /\ UNCHANGED <<origin, corner, callback, isSelecting, cursor, anchor, pressed>>

SheetNext == \/ \E target \in Targets : OnMouseDown(target)
             \/ OnMouseUp
             \/ \E target \in Targets : OnCellEnter(target)
             \/ OnCellEdit
             \/ \E value \in EditValues : AfterEditChange(value)

SheetSpec == SheetInit /\ [][SheetNext]_vars

(***************************************************************************)
(* Properties                                                              *)
(***************************************************************************)
InBounds(location) == ContainsXY(origin, corner, location.x, location.y)

KeyOf(w) == PointKey(w[1], w[2])

\* The Frame a rows x cols array occupies when anchored at org:
\* org to org + (cols - 1, rows - 1).
RegionOf(data, org) == Frame(<<org.x, org.y>>, <<org.x + Len(data[1]) - 1, org.y + Len(data) - 1>>)

\* Every cell of the region of data anchored at org lies inside the bounds.
RegionInBounds(data, org) == \A r \in 1..Len(data) : \A k \in 1..Len(data[1]) : ContainsXY(origin, corner, org.x + k - 1, org.y + r - 1)

\* C1: after putAt(p, v) with p inside the bounds and v not undefined,
\* getAt(p) returns v and does not throw, whatever the store held before.
C1_PutThenGet == (last.op = "putAt" /\ ~last.threw /\ InBounds(last.location) /\ last.value # JSUndefined)
                     => GetAt(store, origin, corner, last.location) = Returned(last.value)

\* C1 witness: null was just put at an in-bounds Point of a store that holds
\* other entries, and getAt returns it.
C1_Witness == /\ last.op = "putAt"
              /\ last.location = PointLoc(1, 0)
              /\ last.value = JSNull
              /\ Cardinality(DOMAIN store) >= 2
              /\ GetAt(store, origin, corner, last.location) = Returned(JSNull)

\* C2: the store has an entry for a coordinate exactly when the latest write
\* to it since the last clear carried a value other than undefined, and the
\* entry is that value; after putAt(p, undefined) on an in-bounds p there is
\* no entry for p and getAt(p) returns undefined without throwing.
C2_EntryIffLastWritePresent == /\ \A w \in AllCoords : (KeyOf(w) \in DOMAIN store) <=> (written[w] # JSUndefined)
                               /\ \A w \in AllCoords : StoreGet(store, KeyOf(w)) = written[w]
                               /\ DOMAIN store \subseteq {KeyOf(w) : w \in AllCoords}
                               /\ (last.op = "putAt" /\ ~last.threw /\ InBounds(last.location) /\ last.value = JSUndefined)
                                     => /\ KeyOf(<<last.location.x, last.location.y>>) \notin DOMAIN store
                                        /\ GetAt(store, origin, corner, last.location) = Returned(JSUndefined)

\* C2 witness: undefined was just put at an in-bounds cell while other cells
\* keep their entries; that cell has none.
C2_Witness == /\ last.op = "putAt"
              /\ last.value = JSUndefined
              /\ last.location = CoordLoc(0, 1)
              /\ KeyOf(<<0, 1>>) \notin DOMAIN store
              /\ Cardinality(DOMAIN store) = 3

\* C3: every key of the store is the key of a coordinate inside the bounds.
C3_KeysInBounds == \A k \in DOMAIN store : \E w \in AllCoords : k = KeyOf(w) /\ ContainsXY(origin, corner, w[1], w[2])

\* C4: isFull is true exactly when every Point inside the bounds has a
\* stored value.
C4_IsFullIffEveryPointStored == IsFull(store, origin, corner) <=> (\A w \in InsideCoords : GetAt(store, origin, corner, PointLoc(w[1], w[2])).value # JSUndefined)

\* C5: a loadFromArray whose origin is outside the bounds, or whose region
\* anchored at origin is not wholly inside them, throws, changes no store
\* entry and does not invoke the callback.
C5_LoadAllOrNothing == [][(last'.op = "loadFromArray" /\ (~InBounds(last'.origin) \/ ~RegionInBounds(last'.data, last'.origin)))
                              => (last'.threw /\ store' = store /\ calls' = <<>> /\ callback' = callback)]_vars

\* C5 witness: a load anchored inside the bounds that runs past the corner was
\* refused on a store with entries and a registered callback.
C5_Witness == /\ last.op = "loadFromArray"
              /\ last.threw
              /\ last.origin = CoordLoc(1, 1)
              /\ Len(last.data) = 2
              /\ callback = CallbackFn
              /\ Cardinality(DOMAIN store) >= 2

\* C6: getAt of a Point or coordinate pair outside the bounds throws the
\* out-of-bounds error, entry or not, and no getAt changes the store, the
\* callback or invokes it.
C6_GetAtOutOfBounds == [][last'.op = "getAt"
                              => /\ store' = store
                                 /\ callback' = callback
                                 /\ calls' = <<>>
                                 /\ (last'.location.kind \in {"point", "coord"} /\ ~InBounds(last'.location))
                                       => last'.result = Thrown("outside")]_vars

\* C6 witness: getAt of a Point outside the bounds threw although putAt had
\* stored a value under its key.
C6_Witness == /\ last.op = "getAt"
              /\ last.location = PointLoc(2, -1)
              /\ KeyOf(<<2, -1>>) \in DOMAIN store
              /\ last.result = Thrown("outside")

\* C7: after a successful loadFromArray(data, origin),
\* getDataArrayForFrame(Frame(origin, origin + (cols-1, rows-1))) returns an
\* array equal to data, rows and columns in the same order.
C7_LoadRoundTrip == (last.op = "loadFromArray" /\ ~last.threw)
                       => GetDataArrayForFrame(store, origin, corner, RegionOf(last.data, last.origin)) = Returned(last.data)

\* C7 witness: a 2 x 2 array that differs from its transpose was loaded and
\* reads back equal.
C7_Witness == /\ last.op = "loadFromArray"
              /\ ~last.threw
              /\ last.data = <<<<JSZero, JSUndefined>>, <<JSZero, JSZero>>>>
              /\ GetDataArrayForFrame(store, origin, corner, Frame(<<0, 0>>, <<1, 1>>)).value = last.data

\* C8: a successful loadFromArray with a callback registered invokes it once,
\* with the Frame origin to origin + (cols-1, rows-1), when the store already
\* holds the whole batch.
C8_LoadNotifiesOnce == (last.op = "loadFromArray" /\ ~last.threw /\ callback # CallbackNull)
                          => /\ Len(calls) = 1
                             /\ calls[1].arg = RegionOf(last.data, last.origin)
                             /\ calls[1].seen = store
                             /\ GetDataArrayForFrame(calls[1].seen, origin, corner, RegionOf(last.data, last.origin)) = Returned(last.data)

\* C8 witness: a two-row load with a callback registered made one invocation.
C8_Witness == /\ last.op = "loadFromArray"
              /\ ~last.threw
              /\ callback = CallbackFn
              /\ Len(last.data) = 2
              /\ Len(last.data[1]) = 2
              /\ Len(calls) = 1
              /\ calls[1].arg = Frame(<<0, 0>>, <<1, 1>>)

\* C9: putAt(location, value, notify) with notify true and a callback
\* registered invokes the callback once, with location, after the mutation
\* (getAt of an in-bounds location inside the callback gives the new value);
\* with notify false or no callback it invokes nothing.
C9_PutAtNotifies == (last.op = "putAt" /\ ~last.threw)
                       => IF last.notify /\ callback # CallbackNull
                          THEN /\ Len(calls) = 1
                               /\ calls[1].arg = last.location
                               /\ calls[1].seen = store
                               /\ InBounds(last.location) => GetAt(calls[1].seen, origin, corner, last.location) = Returned(last.value)
                          ELSE calls = <<>>

\* C9 witness: a notifying putAt of a value at an in-bounds coordinate pair
\* reached the callback.
C9_Witness == /\ last.op = "putAt"
              /\ last.notify
              /\ callback = CallbackFn
              /\ last.location = CoordLoc(1, 1)
              /\ last.value = JSZero
              /\ Len(calls) = 1

\* C10: after clear() the store has no entry, isFull is false, getAt of every
\* in-bounds location returns undefined, and a registered callback was invoked
\* once, after the emptying, with the Frame origin to corner.
C10_Clear == last.op = "clear"
                => /\ DOMAIN store = {}
                   /\ ~IsFull(store, origin, corner)
                   /\ \A w \in InsideCoords : /\ GetAt(store, origin, corner, PointLoc(w[1], w[2])) = Returned(JSUndefined)
                                              /\ GetAt(store, origin, corner, CoordLoc(w[1], w[2])) = Returned(JSUndefined)
                   /\ IF callback # CallbackNull
                      THEN calls = <<[arg |-> Frame(origin, corner), seen |-> EmptyStore]>>
                      ELSE calls = <<>>

\* C10 witness: clear emptied a full store with a callback registered.
C10_Witness == /\ last.op = "clear"
               /\ last.removed = 4
               /\ callback = CallbackFn
               /\ Len(calls) = 1

\* The coordinates that hold a value: those whose latest write carried one.
Present == {w \in AllCoords : written[w] # JSUndefined}

\* The coordinates a frame covers.
CellsOf(f) == {<<x, y>> : x \in f.origin[1]..f.corner[1], y \in f.origin[2]..f.corner[2]}

FrameInBounds(f) == /\ ContainsXY(origin, corner, f.origin[1], f.origin[2])
                    /\ ContainsXY(origin, corner, f.corner[1], f.corner[2])

\* C11: hasCompleteDataForFrame(f) throws when f is not contained in the
\* bounds; otherwise it returns true exactly when every Point of f has an
\* entry in the store, whatever value the entry holds (null included).
C11_HasCompleteIffAllPresent == \A f \in QueryFrames :
                                   LET res == HasCompleteDataForFrame(store, origin, corner, f)
                                   IN IF ~FrameInBounds(f) THEN res.threw
                                      ELSE /\ ~res.threw
                                           /\ res.value <=> (\A w \in CellsOf(f) : KeyOf(w) \in DOMAIN store)

\* C12: on a non-empty store minFrame is the tightest Frame around the
\* present keys: it contains each of them and each of its four sides passes
\* through one.
C12_MinFrameTight == DOMAIN store # {}
                        => LET res == MinFrame(store)
                           IN /\ ~res.threw
                              /\ \A w \in Present : ContainsXY(res.value.origin, res.value.corner, w[1], w[2])
                              /\ \E w \in Present : w[1] = res.value.origin[1]
                              /\ \E w \in Present : w[2] = res.value.origin[2]
                              /\ \E w \in Present : w[1] = res.value.corner[1]
                              /\ \E w \in Present : w[2] = res.value.corner[2]

\* C12 witness: with entries at (0,1) and (2,-1) and nothing else minFrame is
\* origin (0,-1), corner (2,1).
C12_Witness == /\ DOMAIN store = {KeyOf(<<0, 1>>), KeyOf(<<2, -1>>)}
               /\ MinFrame(store) = Returned(Frame(<<0, -1>>, <<2, 1>>))

\* C13: on a non-empty store minFrameFromOrigin is the Frame from the declared
\* origin to minFrame's corner, it is well formed and it contains minFrame.
C13_MinFrameFromOrigin == DOMAIN store # {}
                             => LET res == MinFrameFromOrigin(store, origin)
                                    minFrame == MinFrame(store)
                                IN /\ ~res.threw
                                   /\ res.value.origin = origin
                                   /\ res.value.corner = minFrame.value.corner
                                   /\ res.value.origin[1] <= res.value.corner[1]
                                   /\ res.value.origin[2] <= res.value.corner[2]
                                   /\ Contains(res.value.origin, res.value.corner, minFrame.value)

\* C14: on a store with no entry minFrame, minFrameFromOrigin and toArray in
\* either mode fail with the empty-store error.
C14_EmptyStoreError == DOMAIN store = {}
                          => /\ MinFrame(store) = Thrown("empty store")
                             /\ MinFrameFromOrigin(store, origin) = Thrown("empty store")
                             /\ ToArray(store, origin, corner, TRUE) = Thrown("empty store")
                             /\ ToArray(store, origin, corner, FALSE) = Thrown("empty store")

\* C15: getDataArrayForFrame(frame) throws when frame is not contained in the
\* bounds; otherwise it returns height(frame) rows of width(frame) values,
\* result[r][c] being getAt((frame.origin.x + c, frame.origin.y + r)):
\* the value last written there, undefined without an entry.
C15_GetDataArrayLayout == \A f \in QueryFrames :
                             LET res == GetDataArrayForFrame(store, origin, corner, f)
                                 w == f.corner[1] - f.origin[1] + 1
                                 h == f.corner[2] - f.origin[2] + 1
                             IN IF ~FrameInBounds(f) THEN res.threw
                                ELSE /\ ~res.threw
                                     /\ Len(res.value) = h
                                     /\ \A r \in 1..h : /\ Len(res.value[r]) = w
                                                        /\ \A k \in 1..w : /\ res.value[r][k] = GetAt(store, origin, corner, CoordLoc(f.origin[1] + k - 1, f.origin[2] + r - 1)).value
                                                                           /\ res.value[r][k] = written[<<f.origin[1] + k - 1, f.origin[2] + r - 1>>]

\* C15 witness: with null at (1,0) and 0 at (0,1) the array of the whole frame
\* is [[undefined, null], [0, undefined]], and the frame reaching one column
\* past the corner is refused.
C15_Witness == /\ DOMAIN store = {KeyOf(<<1, 0>>), KeyOf(<<0, 1>>)}
               /\ GetDataArrayForFrame(store, origin, corner, Frame(<<0, 0>>, <<1, 1>>)) = Returned(<<<<JSUndefined, JSNull>>, <<JSZero, JSUndefined>>>>)
               /\ GetDataArrayForFrame(store, origin, corner, Frame(<<1, 0>>, <<2, 1>>)).threw

\* C16: toArray(true) is getDataArrayForFrame(minFrame) and toArray(false) is
\* getDataArrayForFrame(minFrameFromOrigin); on a non-empty store the
\* non-strict array starts at the declared origin and its last row and its
\* last column each hold a present value.
C16_ToArray == DOMAIN store # {}
                  => LET strict == ToArray(store, origin, corner, TRUE)
                         loose == ToArray(store, origin, corner, FALSE)
                     IN /\ ~strict.threw
                        /\ ~loose.threw
                        /\ strict = GetDataArrayForFrame(store, origin, corner, MinFrame(store).value)
                        /\ loose = GetDataArrayForFrame(store, origin, corner, MinFrameFromOrigin(store, origin).value)
                        /\ loose.value[1][1] = written[origin]
                        /\ \E k \in 1..Len(loose.value[Len(loose.value)]) : loose.value[Len(loose.value)][k] # JSUndefined
                        /\ \E r \in 1..Len(loose.value) : loose.value[r][Len(loose.value[r])] # JSUndefined

\* C17: a Point and a coordinate pair of the same x and y address one cell:
\* what putAt wrote (or removed) through either, getAt returns through both;
\* both give one key, and minFrame's parsing of the keys of the store gives
\* back exactly the coordinates written.
C17_PointAndPairSameCell == /\ (last.op = "putAt" /\ ~last.threw /\ InBounds(last.location))
                                  => /\ GetAt(store, origin, corner, PointLoc(last.location.x, last.location.y)) = Returned(last.value)
                                     /\ GetAt(store, origin, corner, CoordLoc(last.location.x, last.location.y)) = Returned(last.value)
                            /\ \A w \in AllCoords : PutAtKey(PointLoc(w[1], w[2])) = PutAtKey(CoordLoc(w[1], w[2]))
                            /\ {KeyCoord(k) : k \in DOMAIN store} = Present

\* C17 witness: 0 put through the Point (0,1) is read through the pair [0,1],
\* and the key of the entry at (2,-1) parses to (2,-1).
C17_Witness == /\ last.op = "putAt"
               /\ last.location = PointLoc(0, 1)
               /\ last.value = JSZero
               /\ GetAt(store, origin, corner, CoordLoc(0, 1)) = Returned(JSZero)
               /\ KeyOf(<<2, -1>>) \in DOMAIN store
               /\ KeyCoord(KeyOf(<<2, -1>>)) = <<2, -1>>

\* C18: putAt(location, value) changes at most the entry of location; a
\* successful loadFromArray(data, origin) puts data[r][c] at
\* (origin.x + c, origin.y + r) and changes no entry outside the Frame
\* origin to origin + (cols-1, rows-1).
C18_WriteFrameEffect == [][/\ (last'.op = "putAt" /\ last'.threw) => store' = store
                           /\ (last'.op = "putAt" /\ ~last'.threw)
                                 => \A k \in (DOMAIN store \cup DOMAIN store') \ {KeyOf(<<last'.location.x, last'.location.y>>)} :
                                       StoreGet(store', k) = StoreGet(store, k)
                           /\ (last'.op = "loadFromArray" /\ ~last'.threw)
                                 => /\ \A r \in 1..Len(last'.data) : \A k \in 1..Len(last'.data[r]) :
                                          StoreGet(store', KeyOf(<<last'.origin.x + k - 1, last'.origin.y + r - 1>>)) = last'.data[r][k]
                                    /\ \A k \in (DOMAIN store \cup DOMAIN store') \ {KeyOf(w) : w \in CellsOf(RegionOf(last'.data, last'.origin))} :
                                          StoreGet(store', k) = StoreGet(store, k)]_vars

\* C18 witness: a two-row, one-column load at [1,0] happened in a store that
\* keeps its entries at (0,0) and (2,-1).
C18_Witness == /\ last.op = "loadFromArray"
               /\ ~last.threw
               /\ last.origin = CoordLoc(1, 0)
               /\ Len(last.data) = 2
               /\ StoreGet(store, KeyOf(<<0, 0>>)) = JSNull
               /\ KeyOf(<<2, -1>>) \in DOMAIN store

\* C19: on a non-empty store minFrame and minFrameFromOrigin are contained in
\* the bounds, and toArray(true) and toArray(false) return an array.
C19_ToArrayNeverFails == DOMAIN store # {}
                            => /\ ~MinFrame(store).threw
                               /\ Contains(origin, corner, MinFrame(store).value)
                               /\ ~MinFrameFromOrigin(store, origin).threw
                               /\ Contains(origin, corner, MinFrameFromOrigin(store, origin).value)
                               /\ ~ToArray(store, origin, corner, TRUE).threw
                               /\ ~ToArray(store, origin, corner, FALSE).threw

\* C20: isFull equals hasCompleteDataForFrame of the Frame origin to corner.
C20_CompletenessTestsAgree == LET res == HasCompleteDataForFrame(store, origin, corner, Frame(origin, corner))
                              IN /\ ~res.threw
                                 /\ IsFull(store, origin, corner) <=> res.value

\* C21: a step of getAt, getDataArrayForFrame, toArray, isFull, minFrame,
\* minFrameFromOrigin or hasCompleteDataForFrame leaves the store, the origin,
\* the corner and the callback as they were and invokes no callback (so the
\* sheet dispatches nothing), whether the call returned or threw.
C21_QueriesChangeNothing == [][last'.op \in QueryOps
                                   => /\ store' = store
                                      /\ origin' = origin
                                      /\ corner' = corner
                                      /\ callback' = callback
                                      /\ calls' = <<>>
                                      /\ effects' = <<>>]_vars

\* C21 witness: toArray(true) threw on a store of two entries with a callback
\* registered.
C21_Witness == /\ last.op = "toArray"
               /\ last.strict
               /\ last.result.threw
               /\ callback = CallbackFn
               /\ DOMAIN store = {KeyOf(<<0, 0>>), KeyOf(<<2, -1>>)}

\* C22: each notification the DataFrame delivers to onDataChanged makes the
\* sheet dispatch one 'data-updated' event whose detail.frames has one
\* element, a Frame (for a single-cell write the Frame from that cell to
\* itself), and then call updateCellContents once.
C22_OneFramePerNotification == /\ Len(effects) = 2 * Len(calls)
                               /\ \A i \in DOMAIN calls :
                                     /\ effects[2 * i - 1].effect = "dispatchEvent"
                                     /\ effects[2 * i - 1].type = "data-updated"
                                     /\ Len(effects[2 * i - 1].frames) = 1
                                     /\ effects[2 * i - 1].frames[1].kind = "frame"
                                     /\ calls[i].arg.kind \in {"point", "coord"}
                                           => effects[2 * i - 1].frames[1] = Frame(<<calls[i].arg.x, calls[i].arg.y>>, <<calls[i].arg.x, calls[i].arg.y>>)
                                     /\ effects[2 * i].effect = "updateCellContents"

\* C23: isSelecting is true exactly when a mousedown on a cell has occurred
\* with no mouseup since; a mouseover sets the cursor, calls
\* selectFromAnchorTo and dispatches selection-changed when its target is a
\* cell and isSelecting is true, and otherwise does nothing; a mousedown or
\* mouseover on something that is no cell changes neither isSelecting nor the
\* cursor nor the anchor and dispatches nothing.
C23_DragSelection == /\ [](isSelecting <=> pressed)
                     /\ [][/\ last'.op = "onCellEnter"
                                 => /\ isSelecting' = isSelecting
                                    /\ anchor' = anchor
                                    /\ IF last'.target.isCell /\ isSelecting
                                       THEN /\ cursor' = <<last'.target.x, last'.target.y>>
                                            /\ effects' = <<[effect |-> "setCursorToElement", target |-> last'.target],
                                                            [effect |-> "selectFromAnchorTo", to |-> RelativeCursor(cursor')],
                                                            [effect |-> "dispatchEvent", type |-> "selection-changed"]>>
                                       ELSE /\ cursor' = cursor
                                            /\ effects' = <<>>
                           /\ (last'.op = "onMouseDown" /\ ~last'.target.isCell)
                                 => /\ isSelecting' = isSelecting
                                    /\ cursor' = cursor
                                    /\ anchor' = anchor
                                    /\ effects' = <<>>
                           /\ (last'.op = "onMouseDown" /\ last'.target.isCell) => isSelecting'
                           /\ last'.op = "onMouseUp" => ~isSelecting']_vars

\* C23 witness: with the button down since a mousedown on cell (0,0), a
\* mouseover on cell (1,1) moved the cursor there and dispatched
\* selection-changed.
C23_Witness == /\ last.op = "onCellEnter"
               /\ last.target = CellTarget(1, 1)
               /\ isSelecting
               /\ anchor = <<0, 0>>
               /\ cursor = <<1, 1>>
               /\ Len(effects) = 3

\* C24: the edit area is enabled exactly when the 'change' listener is
\* attached; onCellEdit while editing changes nothing; afterEditChange
\* disables the edit area, detaches the listener and puts the edit area's
\* value at the selector's relative cursor, touching no other entry, and the
\* sheet dispatches exactly one 'data-updated' event for it.
C24_CellEditMode == /\ [](editDisabled <=> ~changeListener)
                    /\ [][/\ (last'.op = "onCellEdit" /\ ~editDisabled)
                                => /\ UNCHANGED <<editDisabled, changeListener, editingSheet, editingCells, store, cursor>>
                                   /\ effects' = <<>>
                          /\ (last'.op = "onCellEdit" /\ editDisabled)
                                => /\ ~editDisabled'
                                   /\ changeListener'
                                   /\ store' = store
                          /\ last'.op = "afterEditChange"
                                => /\ changeListener
                                   /\ editDisabled'
                                   /\ ~changeListener'
                                   /\ last'.location = RelativeCursor(cursor)
                                   /\ StoreGet(store', KeyOf(cursor)) = last'.value
                                   /\ \A k \in (DOMAIN store \cup DOMAIN store') \ {KeyOf(cursor)} : StoreGet(store', k) = StoreGet(store, k)
                                   /\ Len(calls') = 1
                                   /\ calls'[1].arg = last'.location
                                   /\ Cardinality({i \in DOMAIN effects' : effects'[i].effect = "dispatchEvent"}) = 1
                                   /\ effects'[1] = [effect |-> "dispatchEvent", type |-> "data-updated", frames |-> <<Frame(cursor, cursor)>>]]_vars

\* C24 witness: an edit at cell (1,1) ended with the empty string: the cell
\* holds it, the edit area is disabled again and one event went out.
C24_Witness == /\ last.op = "afterEditChange"
               /\ last.value = ""
               /\ cursor = <<1, 1>>
               /\ StoreGet(store, KeyOf(<<1, 1>>)) = ""
               /\ editDisabled
               /\ ~changeListener
               /\ effects[1].effect = "dispatchEvent"

====
